---- MODULE Spec2Model ----
(***************************************************************************)
(* Text-to-Speech Generator (src/App.tsx): the PCM decoder                 *)
(* (decode, decodeAudioData), the WAV encoder (bufferToWave) and the       *)
(* request lifecycle of the App component (handleGenerateSpeech,           *)
(* handleDownload).                                                        *)
(*                                                                         *)
(* Numbers.  A sample is an exact rational n/d (or NaN).  The values the   *)
(* code computes on samples are exact in IEEE doubles: a Float32 sample    *)
(* has a 24-bit significand, the scale factors 32767 and 32768 have 15     *)
(* and 16 bits, so sample * 32767 and sample * 32768 are computed without  *)
(* rounding, and k / 32768.0 is exact for every int16 k.  Rational         *)
(* arithmetic therefore gives the code's results.                          *)
(***************************************************************************)
EXTENDS Integers, Sequences, FiniteSets, TLC

VARIABLES
    \* --- one sample through the encoder's quantizer, then the decoder's rule
    qx,        \* the sample read from channels[i][offset]
    qdone,     \* whether the sample has been written
    qsample,   \* the variable `sample` after line 76, handed to view.setInt16
    qout,      \* the int16 that view.setInt16 stored
    qback,     \* that int16 decoded again by the decoder's rule (line 30)
    \* --- the decoder and the encoder as functions of their inputs
    cin,       \* the input: PCM bytes with a channel count, or a sample buffer
    cpc,       \* "start", "decoded" or "encoded"
    cdec,      \* what decodeAudioData returned or threw
    cwav,      \* what bufferToWave returned or threw
    \* --- the App component
    text,             \* useState text (a sequence of character codes)
    apiKey,           \* whether process.env.API_KEY is set
    isLoading,        \* useState isLoading
    error,            \* useState error (Null or a message)
    audioBuffer,      \* useState audioBuffer (null or an AudioBuffer)
    audioContextRef,  \* audioContextRef.current: 0 for null, else a context
    ctxState,         \* state of every AudioContext created, in creation order
    pc,               \* where handleGenerateSpeech is suspended: "idle",
                      \* "awaitApi", "awaitClose" or "awaitDecode"
    base64Audio,      \* the local base64Audio while the handler is suspended
    pending,          \* the settled value of the decodeAudioData promise
    started,          \* number of source.start() calls so far
    lastDownload,     \* what the last handleDownload handed to the browser
    req,              \* history: facts about the latest generation request
    nreq              \* number of generation requests issued

quantVars == <<qx, qdone, qsample, qout, qback>>
codecVars == <<cin, cpc, cdec, cwav>>
appVars == <<text, apiKey, isLoading, error, audioBuffer, audioContextRef, ctxState,
             pc, base64Audio, pending, started, lastDownload, req, nreq>>
vars == <<quantVars, codecVars, appVars>>

----------------------------------------------------------------------------
(* Bounds of the model *)

\* samples are enumerated on the grid k / SampleDen.  The grid is not a power
\* of two on purpose: on a grid k / 2^j with 2^j <= 32768 the product with
\* 32767 always falls just below an integer and the fractions that decide
\* rounding never occur.
SampleDen == 10000
\* grid steps enumerated beyond +1.0 and below -1.0 (samples that are clamped)
OverRange == 3
\* longest PCM byte sequence handed to the decoder
MaxBytes == 6
\* largest channel count of a decoder call or of a sample buffer
MaxChannels == 3
\* largest frame count of a sample buffer handed directly to the encoder
MaxFrames == 2
\* generation requests issued in one session
MaxRequests == 3

----------------------------------------------------------------------------
(* Program constants *)

NegScale == 32768
PosScale == 32767
DecodeDivisor == 32768

----------------------------------------------------------------------------
(* Samples: exact rationals, or NaN *)

Rat(n, d) == [nan |-> FALSE, n |-> n, d |-> d]
NaN == [nan |-> TRUE, n |-> 0, d |-> 1]

\* integer division rounding toward zero (a, b integers, b > 0)
TruncDiv(a, b) == IF a >= 0 THEN a \div b ELSE -((-a) \div b)

\* Math.min(1, x): NaN if x is NaN
MathMin1(x) == IF x.nan THEN NaN ELSE IF x.n > x.d THEN Rat(1, 1) ELSE x

\* Math.max(-1, x): NaN if x is NaN
MathMaxNeg1(x) == IF x.nan THEN NaN ELSE IF x.n < -x.d THEN Rat(-1, 1) ELSE x

\* line 75: Math.max(-1, Math.min(1, channels[i][offset]))
ClampMutNoClamp(x) == x
Clamp(x) == MathMaxNeg1(MathMin1(x))

\* x * c for an integer constant c
Times(x, c) == IF x.nan THEN NaN ELSE Rat(x.n * c, x.d)

\* line 76, the condition `0.5 + sample < 0`: + binds tighter than <, so the
\* test is sample < -0.5 (false for NaN)
ScaleTest(s) == (~s.nan) /\ (s.d + 2 * s.n < 0)

\* line 76, the conditional expression before `| 0`
ScaleMutAlwaysNeg(s) == Times(s, NegScale)
Scale(s) == IF ScaleTest(s) THEN Times(s, NegScale) ELSE Times(s, PosScale)

\* line 76, `| 0`: ToInt32, which maps NaN to 0 and drops the fraction
\* (rounding toward zero).  Every value reaching it here has magnitude at
\* most 2 * 32768, far below 2^31, so the reduction modulo 2^32 changes nothing.
ToInt32(v) == IF v.nan THEN 0 ELSE TruncDiv(v.n, v.d)

\* line 77, view.setInt16(pos, sample, true): the value modulo 2^16 as a
\* signed 16-bit integer
ToInt16(v) == ((v + 32768) % 65536) - 32768

\* lines 75-76: the variable `sample` after the two assignments
ScaledSample(x) == ToInt32(Scale(Clamp(x)))

\* lines 75-77: the int16 written for one sample read from a channel
QuantizeSample(x) == ToInt16(ScaledSample(x))

\* line 30: dataInt16[...] / 32768.0
DecodeSampleMutSymmetric(k) == Rat(k, PosScale)
DecodeSample(k) == Rat(k, DecodeDivisor)

----------------------------------------------------------------------------
(* Bytes *)

\* DataView.setUint16(pos, v, true): the two bytes, low byte first
U16LE(v) == <<v % 256, (v \div 256) % 256>>

\* DataView.setUint32(pos, v, true): the four bytes, low byte first
\* (every v written here is below 2^31)
U32LE(v) == <<v % 256, (v \div 256) % 256, (v \div 65536) % 256, (v \div 16777216) % 256>>

\* DataView.setInt16(pos, v, true): v modulo 2^16, low byte first
I16LE(v) == U16LE(v % 65536)

\* Int16Array element i (from 0) over a byte buffer: little-endian, signed
Int16At(data, i) == ToInt16(data[2 * i + 1] + 256 * data[2 * i + 2])

\* a DataView write of the bytes bs at byte offset pos (from 0); the caller
\* checks the range first, as DataView does before it throws RangeError
PutBytes(view, pos, bs) ==
    [j \in 1 .. Len(view) |->
        IF j > pos /\ j <= pos + Len(bs) THEN bs[j - pos] ELSE view[j]]

----------------------------------------------------------------------------
(* decode, lines 6-14 *)

\* A base64 string is a sequence of character classes: 0..63 the value of an
\* alphabet character, Pad for '=', Space for ASCII whitespace, Other for
\* any character outside the alphabet.
Pad == 64
Space == 66
Other == 65

RECURSIVE DropSpaces(_)
DropSpaces(cs) ==
    IF cs = <<>> THEN <<>>
    ELSE IF Head(cs) = Space THEN DropSpaces(Tail(cs))
    ELSE <<Head(cs)>> \o DropSpaces(Tail(cs))

\* up to two trailing '=' are dropped when the length is a multiple of 4
DropPadding(cs) ==
    LET n == Len(cs)
    IN  IF n % 4 # 0 \/ n = 0 THEN cs
        ELSE IF cs[n] = Pad /\ cs[n - 1] = Pad THEN SubSeq(cs, 1, n - 2)
        ELSE IF cs[n] = Pad THEN SubSeq(cs, 1, n - 1)
        ELSE cs

\* the bytes of the sextets cs: each full group of four gives three bytes, a
\* rest of two gives one byte, a rest of three gives two
RECURSIVE SextetsToBytes(_)
SextetsToBytes(cs) ==
    IF Len(cs) >= 4
    THEN LET v == cs[1] * 262144 + cs[2] * 4096 + cs[3] * 64 + cs[4]
         IN  <<v \div 65536, (v \div 256) % 256, v % 256>> \o SextetsToBytes(SubSeq(cs, 5, Len(cs)))
    ELSE IF Len(cs) = 3
    THEN LET v == cs[1] * 4096 + cs[2] * 64 + cs[3]
         IN  <<v \div 1024, (v \div 4) % 256>>
    ELSE IF Len(cs) = 2
    THEN <<(cs[1] * 64 + cs[2]) \div 16>>
    ELSE <<>>

\* line 7, atob(base64): InvalidCharacterError for a length of 1 modulo 4
\* after stripping, or for a character outside the alphabet
atob(base64) ==
    LET cs == DropPadding(DropSpaces(base64))
    IN  IF Len(cs) % 4 = 1 \/ \E j \in 1 .. Len(cs) : cs[j] > 63
        THEN [status |-> "InvalidCharacterError", bytes |-> <<>>]
        ELSE [status |-> "ok", bytes |-> SextetsToBytes(cs)]

\* lines 6-14: bytes[i] = binaryString.charCodeAt(i)
decode(base64) == atob(base64)

----------------------------------------------------------------------------
(* decodeAudioData, lines 17-34 *)

NoBuffer == [numberOfChannels |-> 0, length |-> 0, sampleRate |-> 0, channels |-> <<>>]

\* line 25, ctx.createBuffer(numChannels, frameCount, sampleRate) with
\* frameCount = n / numChannels: the length argument is an unsigned long, so
\* the fraction is dropped
CreateBufferLength(n, numChannels) == TruncDiv(n, numChannels)

\* lines 23-33.  new Int16Array(data.buffer) throws RangeError when the byte
\* length is odd; createBuffer throws NotSupportedError for a length of zero.
\* The loops run i over 0 <= i < frameCount; when frameCount has a fraction the
\* last i is past the end of channelData and that store is dropped.
decodeAudioData(data, sampleRate, numChannels) ==
    IF Len(data) % 2 # 0
    THEN [status |-> "RangeError", buffer |-> NoBuffer]
    ELSE LET n == Len(data) \div 2
             length == CreateBufferLength(n, numChannels)
         IN  IF length = 0
             THEN [status |-> "NotSupportedError", buffer |-> NoBuffer]
             ELSE [status |-> "ok",
                   buffer |->
                     [numberOfChannels |-> numChannels,
                      length |-> length,
                      sampleRate |-> sampleRate,
                      channels |->
                        [channel \in 1 .. numChannels |->
                          [i \in 1 .. length |->
                            DecodeSample(Int16At(data, (i - 1) * numChannels + (channel - 1)))]]]]

----------------------------------------------------------------------------
(* bufferToWave, lines 37-84 *)

\* the four ASCII codes written by one setUint32 call of the header
TagRIFF == U32LE(1179011410)   \* 0x46464952
TagWAVE == U32LE(1163280727)   \* 0x45564157
TagFmt  == U32LE(544501094)    \* 0x20746d66
TagData == U32LE(1635017060)   \* 0x61746164

\* lines 48-57 with the helpers of lines 59-67: setUint16(data, p) and
\* setUint32(data, p) store `data` at pos and advance pos; the parameter p is
\* never used, so the second argument of each call is not written.
WriteHeader(buffer) ==
    TagRIFF \o TagWAVE \o TagFmt
      \o U16LE(1) \o U16LE(buffer.numberOfChannels)
      \o U32LE(buffer.sampleRate)
      \o U32LE(buffer.sampleRate * 2 * buffer.numberOfChannels)
      \o U16LE(buffer.numberOfChannels * 2) \o U16LE(16)
      \o TagData

\* channels[i][offset]: a read past the end of a Float32Array is undefined,
\* which Math.min turns into NaN
ChannelRead(buffer, i, offset) ==
    IF offset < Len(buffer.channels[i + 1])
    THEN buffer.channels[i + 1][offset + 1]
    ELSE NaN

\* lines 74-79, the for loop from channel i on: st = [view, pos, status]
RECURSIVE InterleaveFrame(_, _, _, _)
InterleaveFrame(buffer, st, offset, i) ==
    IF i >= buffer.numberOfChannels \/ st.status # "ok"
    THEN st
    ELSE IF st.pos + 2 > Len(st.view)
         THEN [st EXCEPT !.status = "RangeError"]
         ELSE InterleaveFrame(buffer,
                  [st EXCEPT
                      !.view = PutBytes(st.view, st.pos,
                                        I16LE(QuantizeSample(ChannelRead(buffer, i, offset)))),
                      !.pos = st.pos + 2],
                  offset, i + 1)

\* lines 73-81, the while loop.  With no channels the body changes neither pos
\* nor length, so the loop never ends once entered.
RECURSIVE InterleaveLoop(_, _, _)
InterleaveLoop(buffer, st, offset) ==
    IF st.status # "ok" \/ ~(st.pos < Len(st.view))
    THEN st
    ELSE IF buffer.numberOfChannels = 0
         THEN [st EXCEPT !.status = "hang"]
         ELSE InterleaveLoop(buffer, InterleaveFrame(buffer, st, offset, 0), offset + 1)

\* lines 38-83: status "ok" with the bytes of the Blob, "RangeError" when a
\* DataView store is out of range, "hang" when the function never returns
bufferToWave(buffer) ==
    LET numOfChan == buffer.numberOfChannels
        length == buffer.length * numOfChan * 2 + 44
        header == WriteHeader(buffer)
        blank == [j \in 1 .. length |-> 0]
        st0 == [view |-> PutBytes(blank, 0, header), pos |-> Len(header), status |-> "ok"]
        st == InterleaveLoop(buffer, st0, 0)
    IN  [status |-> st.status,
         bytes |-> IF st.status = "ok" THEN st.view ELSE <<>>,
         dataStart |-> Len(header)]

----------------------------------------------------------------------------
(* Initial values of the parts a specification does not use *)

NoDecode == [status |-> "none", buffer |-> NoBuffer]
NoWave == [status |-> "none", bytes |-> <<>>, dataStart |-> 0]
NoInput == [kind |-> "none", data |-> <<>>, numChannels |-> 0, sampleRate |-> 0,
            buffer |-> NoBuffer]

CodecIdle ==
    /\ cin = NoInput
    /\ cpc = "start"
    /\ cdec = NoDecode
    /\ cwav = NoWave

Null == "null"
NullAudio == [null |-> TRUE, buffer |-> NoBuffer]
NoPayload == [present |-> FALSE, chars |-> <<>>]
NoRequest == [response |-> "none", outcome |-> "none", hadBuffer |-> FALSE,
              ctxAtStart |-> 0, startedAtStart |-> 0]

AppIdle ==
    /\ text = <<>>
    /\ apiKey = FALSE
    /\ isLoading = FALSE
    /\ error = Null
    /\ audioBuffer = NullAudio
    /\ audioContextRef = 0
    /\ ctxState = <<>>
    /\ pc = "idle"
    /\ base64Audio = NoPayload
    /\ pending = NoDecode
    /\ started = 0
    /\ lastDownload = NoWave
    /\ req = NoRequest
    /\ nreq = 0

QuantIdle ==
    /\ qx = NaN
    /\ qdone = TRUE
    /\ qsample = 0
    /\ qout = 0
    /\ qback = Rat(0, DecodeDivisor)

----------------------------------------------------------------------------
(* SpecQuant: every sample of the grid through lines 75-77, then line 30 *)

GridSamples ==
    { Rat(k, SampleDen) : k \in -(SampleDen + OverRange) .. (SampleDen + OverRange) }
        \cup {NaN}

InitQuant ==
    /\ qx \in GridSamples
    /\ qdone = FALSE
    /\ qsample = 0
    /\ qout = 0
    /\ qback = Rat(0, DecodeDivisor)
    /\ CodecIdle
    /\ AppIdle

WriteSample ==
    /\ ~qdone
    /\ qdone' = TRUE
    /\ qsample' = ScaledSample(qx)
    /\ qout' = QuantizeSample(qx)
    /\ qback' = DecodeSample(QuantizeSample(qx))
    /\ UNCHANGED qx
    /\ UNCHANGED <<codecVars, appVars>>

NextQuant == WriteSample

SpecQuant == InitQuant /\ [][NextQuant]_vars

----------------------------------------------------------------------------
(* Properties of the quantizer *)

\* the sample lies in the closed range [-1, 1]
InUnitRange(x) == (~x.nan) /\ (-x.d <= x.n) /\ (x.n <= x.d)

Abs(i) == IF i < 0 THEN -i ELSE i

\* round to the nearest integer (ties toward +infinity, as Math.round)
RoundRat(v) == (2 * v.n + v.d) \div (2 * v.d)

\* the quantization rule as the specification words it: clamp, then
\* round(value * 32768) if value < 0, else round(value * 32767)
StatedQuantize(x) ==
    LET v == Clamp(x)
    IN  IF v.n < 0 THEN RoundRat(Times(v, NegScale)) ELSE RoundRat(Times(v, PosScale))

\* C2: every sample written equals the stated rule: negative clamped values
\* are scaled by 32768, others by 32767, and the result is rounded to nearest.
C2_WrittenIsStatedQuantize ==
    (qdone /\ ~qx.nan) => qout = StatedQuantize(qx)

\* |qback - qx| in units of 1 / (DecodeDivisor * qx.d)
RoundTripError == Abs(qback.n * qx.d - qx.n * DecodeDivisor)

\* C3 (as claimed): for x in [-1, 1], decoding the quantized sample gives y
\* with |y - x| <= 1/32768.
C3_RoundTripWithinOneStep ==
    (qdone /\ InUnitRange(qx)) => RoundTripError <= qx.d

\* C3 (amended): for x in [-1, 1], decoding the quantized sample gives y with
\* |y - x| < 2/32768 (within two quantization steps, not one).
C3_RoundTripWithinTwoSteps ==
    (qdone /\ InUnitRange(qx)) => RoundTripError < 2 * qx.d

\* C3 witness: a sample in [-1, 1] has been quantized and decoded, and its
\* round-trip error is more than one step.
C3_Witness ==
    qdone /\ InUnitRange(qx) /\ RoundTripError > qx.d

\* C8: 1.0 is written as 32767, -1.0 as -32768, and for every sample the value
\* handed to setInt16 already lies in [-32768, 32767], so the int16 stored is
\* that value (nothing wraps).
C8_ClippingBoundary ==
    qdone =>
        /\ qsample \in -32768 .. 32767
        /\ qout = qsample
        /\ (~qx.nan /\ qx.n = qx.d) => qout = 32767
        /\ (~qx.nan /\ qx.n = -qx.d) => qout = -32768

\* C8 witness: the sample -1.0 has been written, as -32768.
C8_Witness ==
    qdone /\ ~qx.nan /\ qx.n = -qx.d /\ qout = -32768

----------------------------------------------------------------------------
(* SpecCodec: decodeAudioData and bufferToWave on enumerated inputs *)

\* byte values of the PCM inputs: with them the int16 samples include 0,
\* 32767 (FF 7F), negative values (xx FF) and small positive ones
ByteValues == {0, 127, 255}

SampleRates == {24000, 44100}

\* sample values of the buffers handed directly to the encoder
BufferSamples == {Rat(-1, 1), Rat(1, 2)}

\* a decoder call: PCM bytes, a channel count, a sample rate
PcmInput(d, c, r) ==
    [kind |-> "pcm", data |-> d, numChannels |-> c, sampleRate |-> r, buffer |-> NoBuffer]

\* an encoder call on a buffer given directly
BufferInput(b) ==
    [kind |-> "buf", data |-> <<>>, numChannels |-> 0, sampleRate |-> 0, buffer |-> b]

\* the buffer b with channel c a sample shorter, or a sample longer
Shorter(b, c) == [b EXCEPT !.channels[c] = SubSeq(@, 1, Len(@) - 1)]
Longer(b, c) == [b EXCEPT !.channels[c] = Append(@, Rat(1, 2))]

\* 0 leaves a buffer as it is, c > 0 makes channel c longer, c < 0 makes
\* channel -c shorter
Variants(n, l) == {0} \cup (1 .. n) \cup (IF l > 0 THEN { -c : c \in 1 .. n } ELSE {})
Variant(b, v) == IF v = 0 THEN b ELSE IF v > 0 THEN Longer(b, v) ELSE Shorter(b, -v)

\* The inputs: every byte sequence up to MaxBytes with every channel count,
\* and every buffer of up to MaxChannels channels (none included) and up to
\* MaxFrames frames, with channels of equal length or with one channel off.
InitCodec ==
    /\ \/ \E k \in 0 .. MaxBytes, c \in 1 .. MaxChannels, r \in SampleRates :
            \E d \in [1 .. k -> ByteValues] : cin = PcmInput(d, c, r)
       \/ \E n \in 0 .. MaxChannels, l \in 0 .. MaxFrames, r \in SampleRates :
            \E ch \in [1 .. n -> [1 .. l -> BufferSamples]] :
              \E v \in Variants(n, l) :
                cin = BufferInput(Variant(
                        [numberOfChannels |-> n, length |-> l, sampleRate |-> r,
                         channels |-> ch], v))
    /\ cpc = "start"
    /\ cdec = NoDecode
    /\ cwav = NoWave
    /\ QuantIdle
    /\ AppIdle

\* decodeAudioData(data, ctx, sampleRate, numChannels)
DecodePcm ==
    /\ cpc = "start"
    /\ cin.kind = "pcm"
    /\ cdec' = decodeAudioData(cin.data, cin.sampleRate, cin.numChannels)
    /\ cpc' = "decoded"
    /\ UNCHANGED <<cin, cwav, quantVars, appVars>>

\* bufferToWave on the buffer the decoder returned
EncodeDecoded ==
    /\ cpc = "decoded"
    /\ cdec.status = "ok"
    /\ cwav' = bufferToWave(cdec.buffer)
    /\ cpc' = "encoded"
    /\ UNCHANGED <<cin, cdec, quantVars, appVars>>

\* bufferToWave on a buffer given directly
EncodeBuffer ==
    /\ cpc = "start"
    /\ cin.kind = "buf"
    /\ cwav' = bufferToWave(cin.buffer)
    /\ cpc' = "encoded"
    /\ UNCHANGED <<cin, cdec, quantVars, appVars>>

NextCodec == DecodePcm \/ EncodeDecoded \/ EncodeBuffer

SpecCodec == InitCodec /\ [][NextCodec]_vars

----------------------------------------------------------------------------
(* Spec: the App component, lines 109-210 and the buttons of lines 264-290 *)

\* String.prototype.trim on a sequence of character codes (32 is a space)
RECURSIVE TrimLeft(_)
TrimLeft(t) == IF t # <<>> /\ Head(t) = 32 THEN TrimLeft(Tail(t)) ELSE t
RECURSIVE TrimRight(_)
TrimRight(t) == IF t # <<>> /\ t[Len(t)] = 32 THEN TrimRight(SubSeq(t, 1, Len(t) - 1)) ELSE t
Trim(t) == TrimRight(TrimLeft(t))

\* what the text area can hold: nothing, blanks, text, text after a blank
Texts == { <<>>, <<32, 32>>, <<72, 105>>, <<32, 72>> }

\* what response.candidates?.[0]?.content?.parts?.[0]?.inlineData?.data can be:
\* undefined, "", "AAD/fw==" (bytes 00 00 FF 7F), "AAA=" (bytes 00 00),
\* "AA==" (one byte), "A" and "AA!A" (not base64), " " (no bytes)
Payloads ==
    { NoPayload,
      [present |-> TRUE, chars |-> <<>>],
      [present |-> TRUE, chars |-> <<0, 0, 3, 63, 31, 48, Pad, Pad>>],
      [present |-> TRUE, chars |-> <<0, 0, 0, Pad>>],
      [present |-> TRUE, chars |-> <<0, 0, Pad, Pad>>],
      [present |-> TRUE, chars |-> <<0>>],
      [present |-> TRUE, chars |-> <<0, 0, Other, 0>>],
      [present |-> TRUE, chars |-> <<Space>>] }

NoAudioMessage == "No audio data received from the API."

\* history only: which kind of payload the response carried
PayloadKind(p) ==
    IF ~p.present THEN "absent" ELSE IF p.chars = <<>> THEN "empty" ELSE "audio"

\* line 153, `if (base64Audio)`: undefined and "" are falsy
TruthyMutDefined(p) == p.present
Truthy(p) == p.present /\ p.chars # <<>>

\* line 131, setAudioBuffer(null) when a request starts
DiscardMutKeep(held) == held
Discard(held) == NullAudio

\* line 154, the test before audioContextRef.current.close()
MustCloseMutNever(ref, states) == FALSE
MustClose(ref, states) == ref # 0 /\ states[ref] # "closed"

Init ==
    /\ text = <<>>
    /\ apiKey \in BOOLEAN
    /\ isLoading = FALSE
    /\ error = Null
    /\ audioBuffer = NullAudio
    /\ audioContextRef = 0
    /\ ctxState = <<>>
    /\ pc = "idle"
    /\ base64Audio = NoPayload
    /\ pending = NoDecode
    /\ started = 0
    /\ lastDownload = NoWave
    /\ req = NoRequest
    /\ nreq = 0
    /\ QuantIdle
    /\ CodecIdle

\* line 230, onChange of the text area
SetText ==
    /\ \E t \in Texts : text' = t
    /\ UNCHANGED <<apiKey, isLoading, error, audioBuffer, audioContextRef, ctxState, pc,
                   base64Audio, pending, started, lastDownload, req, nreq>>
    /\ UNCHANGED <<quantVars, codecVars>>

\* lines 179-188: catch sets the message, finally clears isLoading
Catch(message, r) ==
    /\ error' = message
    /\ isLoading' = FALSE
    /\ pc' = "idle"
    /\ req' = [r EXCEPT !.outcome = "failed"]

\* lines 119-149, a click on the Generate button (enabled by line 267 only
\* while no request is pending and the text is not blank), up to the await of
\* the API call
GenerateClick ==
    /\ ~isLoading
    /\ Trim(text) # <<>>
    /\ nreq < MaxRequests
    /\ IF Trim(text) = <<>>
       THEN /\ error' = "Please enter some text to generate speech."
            /\ UNCHANGED <<isLoading, audioBuffer, pc, req, nreq>>
       ELSE IF ~apiKey
       THEN /\ error' = "API_KEY environment variable not set."
            /\ UNCHANGED <<isLoading, audioBuffer, pc, req, nreq>>
       ELSE /\ isLoading' = TRUE
            /\ error' = Null
            /\ audioBuffer' = Discard(audioBuffer)
            /\ pc' = "awaitApi"
            /\ nreq' = nreq + 1
            /\ req' = [response |-> "none", outcome |-> "pending",
                       hadBuffer |-> ~audioBuffer.null,
                       ctxAtStart |-> Len(ctxState), startedAtStart |-> started]
    /\ UNCHANGED <<text, apiKey, audioContextRef, ctxState, base64Audio, pending,
                   started, lastDownload>>
    /\ UNCHANGED <<quantVars, codecVars>>

\* lines 158-166 after any close: a new context is created and stored, the
\* payload is decoded; decode throws into the catch, decodeAudioData returns
\* a promise that the handler awaits
CreateAndDecode(p, states, r) ==
    /\ ctxState' = Append(states, "running")
    /\ audioContextRef' = Len(states) + 1
    /\ base64Audio' = NoPayload
    /\ LET bytes == decode(p.chars)
       IN  IF bytes.status # "ok"
           THEN /\ Catch(bytes.status, r)
                /\ UNCHANGED pending
           ELSE /\ pending' = decodeAudioData(bytes.bytes, 24000, 1)
                /\ pc' = "awaitDecode"
                /\ req' = r
                /\ UNCHANGED <<error, isLoading>>

\* line 138 rejects: the API call fails
ApiRejects ==
    /\ pc = "awaitApi"
    /\ Catch("ApiError", [req EXCEPT !.response = "rejected"])
    /\ UNCHANGED <<text, apiKey, audioBuffer, audioContextRef, ctxState, base64Audio,
                   pending, started, lastDownload, nreq>>
    /\ UNCHANGED <<quantVars, codecVars>>

\* lines 151-177, the API call resolves with a response
ApiResolves ==
    /\ pc = "awaitApi"
    /\ \E p \in Payloads :
         IF ~Truthy(p)
         THEN /\ error' = NoAudioMessage
              /\ isLoading' = FALSE
              /\ pc' = "idle"
              /\ req' = [req EXCEPT !.outcome = "failed", !.response = PayloadKind(p)]
              /\ UNCHANGED <<audioContextRef, ctxState, base64Audio, pending>>
         ELSE IF MustClose(audioContextRef, ctxState)
         THEN /\ pc' = "awaitClose"
              /\ base64Audio' = p
              /\ req' = [req EXCEPT !.response = PayloadKind(p)]
              /\ UNCHANGED <<error, isLoading, audioContextRef, ctxState, pending>>
         ELSE CreateAndDecode(p, ctxState, [req EXCEPT !.response = PayloadKind(p)])
    /\ UNCHANGED <<text, apiKey, audioBuffer, started, lastDownload, nreq>>
    /\ UNCHANGED <<quantVars, codecVars>>

\* line 155 resolves: the old context is closed, the handler goes on
CloseResolves ==
    /\ pc = "awaitClose"
    /\ CreateAndDecode(base64Audio, [ctxState EXCEPT ![audioContextRef] = "closed"], req)
    /\ UNCHANGED <<text, apiKey, audioBuffer, started, lastDownload, nreq>>
    /\ UNCHANGED <<quantVars, codecVars>>

\* lines 161-188, the decodeAudioData promise settles
DecodeSettles ==
    /\ pc = "awaitDecode"
    /\ IF pending.status = "ok"
       THEN /\ audioBuffer' = [null |-> FALSE, buffer |-> pending.buffer]
            /\ started' = started + 1
            /\ isLoading' = FALSE
            /\ pc' = "idle"
            /\ req' = [req EXCEPT !.outcome = "ok"]
            /\ UNCHANGED error
       ELSE /\ Catch(pending.status, req)
            /\ UNCHANGED <<audioBuffer, started>>
    /\ pending' = NoDecode
    /\ UNCHANGED <<text, apiKey, audioContextRef, ctxState, base64Audio, lastDownload, nreq>>
    /\ UNCHANGED <<quantVars, codecVars>>

\* lines 191-210, a click on the Download button (rendered by line 282 only
\* while audioBuffer is set, enabled by line 285 only while not loading)
DownloadClick ==
    /\ ~audioBuffer.null
    /\ ~isLoading
    /\ IF audioBuffer.null
       THEN /\ error' = "No audio available to download."
            /\ UNCHANGED lastDownload
       ELSE LET wav == bufferToWave(audioBuffer.buffer)
            IN  IF wav.status = "ok"
                THEN /\ lastDownload' = wav
                     /\ UNCHANGED error
                ELSE /\ error' = "Failed to prepare audio for download."
                     /\ UNCHANGED lastDownload
    /\ UNCHANGED <<text, apiKey, isLoading, audioBuffer, audioContextRef, ctxState, pc,
                   base64Audio, pending, started, req, nreq>>
    /\ UNCHANGED <<quantVars, codecVars>>

Next ==
    \/ SetText
    \/ GenerateClick
    \/ ApiRejects
    \/ ApiResolves
    \/ CloseResolves
    \/ DecodeSettles
    \/ DownloadClick

Spec == Init /\ [][Next]_vars

----------------------------------------------------------------------------
(* Properties of the decoder and the encoder *)

\* the buffer bufferToWave was called with
EncodedBuffer == IF cin.kind = "buf" THEN cin.buffer ELSE cdec.buffer

\* a sample buffer that keeps its invariants: at least one channel, and
\* every channel as long as the buffer
WellFormed(b) ==
    /\ b.numberOfChannels >= 1
    /\ \A c \in 1 .. b.numberOfChannels : Len(b.channels[c]) = b.length

DataLength(b) == b.length * b.numberOfChannels * 2

\* C1: for every well-formed buffer encoded, bytes 4-7 hold 36 + dataLength
\* and bytes 40-43 hold dataLength (uint32, little-endian), with
\* dataLength = frameCount * numChannels * 2.
C1_RiffSizeField ==
    (cpc = "encoded" /\ WellFormed(EncodedBuffer)) =>
        /\ cwav.status = "ok"
        /\ SubSeq(cwav.bytes, 5, 8) = U32LE(36 + DataLength(EncodedBuffer))
        /\ SubSeq(cwav.bytes, 41, 44) = U32LE(DataLength(EncodedBuffer))

\* the end-to-end scenario: the PCM bytes 00 00 FF 7F decoded as mono, and
\* the result encoded
EndToEndDone ==
    /\ cpc = "encoded"
    /\ cin.kind = "pcm"
    /\ cin.data = <<0, 0, 255, 127>>
    /\ cin.numChannels = 1

C5_IndivisibleFails ==
    ( /\ cpc # "start"
      /\ cin.kind = "pcm"
      /\ Len(cin.data) % 2 = 0
      /\ (Len(cin.data) \div 2) % cin.numChannels # 0 )
        => cdec.status \notin {"ok", "none"}

\* C7: whenever bufferToWave is given a buffer with zero channels or with
\* channels of differing lengths, it fails with InvalidBufferError and returns
\* no file.
C7_InvalidBufferFailsFast ==
    (cpc = "encoded" /\ ~WellFormed(EncodedBuffer)) =>
        cwav.status = "InvalidBufferError"

----------------------------------------------------------------------------
(* Properties of the App component *)

\* C6: whenever the response carries no audio data (payload absent or ""),
\* the request ends as a failure: the no-audio message is set, audioBuffer
\* is null, no AudioContext was created and no playback was started.
C6_NoAudioIsFailure ==
    req.response \in {"absent", "empty"} =>
        /\ pc = "idle"
        /\ ~isLoading
        /\ req.outcome = "failed"
        /\ error = NoAudioMessage
        /\ audioBuffer.null
        /\ Len(ctxState) = req.ctxAtStart
        /\ started = req.startedAtStart

\* C6 witness: a request made while audio was held got the empty string as
\* its payload.
C6_Witness ==
    req.response = "empty" /\ req.hadBuffer /\ req.ctxAtStart >= 1

\* C9: while a request is pending audioBuffer is null, and after a request
\* that failed audioBuffer is still null.
C9_BufferDiscardedOnRequest ==
    /\ isLoading <=> pc # "idle"
    /\ isLoading => audioBuffer.null
    /\ req.outcome = "failed" => audioBuffer.null

\* C9 witness: a request that started while audio was held has failed.
C9_Witness ==
    req.hadBuffer /\ req.outcome = "failed" /\ pc = "idle" /\ audioBuffer.null

\* the AudioContexts that are not closed
OpenContexts == { c \in 1 .. Len(ctxState) : ctxState[c] # "closed" }

\* at most one AudioContext is not closed, and it is the one audioContextRef holds
AtMostOneOpen ==
    /\ Cardinality(OpenContexts) <= 1
    /\ OpenContexts \subseteq {audioContextRef}

\* C10 (as claimed): at most one non-closed AudioContext exists at any time,
\* and a failed request creates none.
C10_OneContextFailedCreatesNone ==
    /\ AtMostOneOpen
    /\ req.outcome = "failed" => Len(ctxState) = req.ctxAtStart

\* C10 (amended): at most one non-closed AudioContext exists at any time; a
\* request that fails without audio data (the API call rejects, or the payload
\* is absent or empty) creates none, and a request whose payload fails to
\* decode has created exactly one, after the old one was closed.
C10_OneContextNoAudioCreatesNone ==
    /\ AtMostOneOpen
    /\ (req.outcome = "failed" /\ req.response # "audio")
           => Len(ctxState) = req.ctxAtStart
    /\ (req.outcome = "failed" /\ req.response = "audio")
           => /\ Len(ctxState) = req.ctxAtStart + 1
              /\ OpenContexts = {audioContextRef}

\* C10 witness: a request whose payload failed to decode has closed the
\* context of an earlier request and created a new one.
C10_Witness ==
    /\ req.outcome = "failed"
    /\ req.response = "audio"
    /\ req.ctxAtStart >= 1
    /\ ctxState[req.ctxAtStart] = "closed"
    /\ ctxState[Len(ctxState)] = "running"

====
